---- MODULE Spec2Model ----
(***************************************************************************)
(* Model of rlt_windows_sentinel: src/models/command.py (class Command,    *)
(* bytes_to_string, parse_streams_on_complete, write_log) and src/main.py  *)
(* (run, main).                                                            *)
(*                                                                         *)
(* Python values are represented as follows.                               *)
(*   None            the empty tuple <<>>; a present value v is <<v>>      *)
(*   bytes           a sequence of integers 0..255                         *)
(*   str             a sequence of one-character strings (the grave accent,*)
(*                   which a TLA+ string cannot hold, is written "GRAVE")  *)
(*   datetime        seconds on the wall clock (an integer)                *)
(*   a call result   [ok |-> TRUE, val |-> v] when it returns v,           *)
(*                   [ok |-> FALSE, val |-> e] when it raises exception e  *)
(***************************************************************************)
EXTENDS Integers, Sequences, FiniteSets, TLC

VARIABLES units, coros, procs, log, now, runner

vars == <<units, coros, procs, log, now, runner>>

(***************************************************************************)
(* Bounds of the model.                                                    *)
(***************************************************************************)
NUnits == 2
MaxCalls == 2
MaxTicks == 2
TickSeconds == 30
MaxBytes == 3

None == <<>>
Some(v) == <<v>>
Ok(v) == [ok |-> TRUE, val |-> v]
Raise(e) == [ok |-> FALSE, val |-> e]

(***************************************************************************)
(* bytes_to_string and the Python built-ins it is made of.                 *)
(***************************************************************************)
Printable ==
  << " ", "!", "\"", "#", "$", "%", "&", "'", "(", ")", "*", "+", ",", "-", ".", "/",
     "0", "1", "2", "3", "4", "5", "6", "7", "8", "9", ":", ";", "<", "=", ">", "?",
     "@", "A", "B", "C", "D", "E", "F", "G", "H", "I", "J", "K", "L", "M", "N", "O",
     "P", "Q", "R", "S", "T", "U", "V", "W", "X", "Y", "Z", "[", "\\", "]", "^", "_",
     "GRAVE", "a", "b", "c", "d", "e", "f", "g", "h", "i", "j", "k", "l", "m", "n", "o",
     "p", "q", "r", "s", "t", "u", "v", "w", "x", "y", "z", "{", "|", "}", "~" >>

HexDigits ==
  << "0", "1", "2", "3", "4", "5", "6", "7", "8", "9", "a", "b", "c", "d", "e", "f" >>

\* chr(b) for a printable ASCII byte b (32..126)
Chr(b) == Printable[b - 31]

\* bytes.replace(old, b"") for a one-byte old
RECURSIVE BytesRemove(_, _)
BytesRemove(bs, old) ==
  IF bs = <<>> THEN <<>>
  ELSE IF Head(bs) = old THEN BytesRemove(Tail(bs), old)
  ELSE <<Head(bs)>> \o BytesRemove(Tail(bs), old)

Contains(s, x) == \E k \in DOMAIN s : s[k] = x

\* the quote character repr(bytes) chooses: " only when the bytes hold a ' and no "
ReprQuote(bs) == IF Contains(bs, 39) /\ ~Contains(bs, 34) THEN 34 ELSE 39

\* the characters repr(bytes) writes for one byte, given the chosen quote
ReprByte(b, quote) ==
  IF b = quote \/ b = 92 THEN <<"\\", Chr(b)>>
  ELSE IF b = 9 THEN <<"\\", "t">>
  ELSE IF b = 10 THEN <<"\\", "n">>
  ELSE IF b = 13 THEN <<"\\", "r">>
  ELSE IF b < 32 \/ b >= 127
    THEN <<"\\", "x", HexDigits[(b \div 16) + 1], HexDigits[(b % 16) + 1]>>
  ELSE <<Chr(b)>>

RECURSIVE ReprBody(_, _)
ReprBody(bs, quote) ==
  IF bs = <<>> THEN <<>>
  ELSE ReprByte(Head(bs), quote) \o ReprBody(Tail(bs), quote)

\* str(bytes): b, quote, escaped bytes, quote
StrOfBytes(bs) ==
  LET q == ReprQuote(bs)
  IN  <<"b", Chr(q)>> \o ReprBody(bs, q) \o <<Chr(q)>>

\* s[2:-1]
Slice2m1(s) == IF Len(s) <= 3 THEN <<>> ELSE SubSeq(s, 3, Len(s) - 1)

StartsWith(s, pat) == Len(s) >= Len(pat) /\ SubSeq(s, 1, Len(pat)) = pat

\* str.replace(pat, rep) for a non-empty pat: leftmost, non-overlapping
RECURSIVE StrReplace(_, _, _)
StrReplace(s, pat, rep) ==
  IF s = <<>> THEN <<>>
  ELSE IF StartsWith(s, pat)
    THEN rep \o StrReplace(SubSeq(s, Len(pat) + 1, Len(s)), pat, rep)
  ELSE <<Head(s)>> \o StrReplace(Tail(s), pat, rep)

\* bytes.decode() on the bounded alphabet: control bytes become the control
\* characters themselves, a non-ASCII byte the replacement character "?"
DecodeByte(b) ==
  IF b = 0 THEN "NUL"
  ELSE IF b = 9 THEN "\t"
  ELSE IF b = 10 THEN "\n"
  ELSE IF b = 13 THEN "\r"
  ELSE IF b < 32 \/ b >= 127 THEN "?"
  ELSE Chr(b)

\* bytes_to_string decoding the bytes instead of taking their repr
bytes_to_string_decoded(_bytes) ==
  LET raw    == BytesRemove(_bytes, 0)
      text   == [k \in DOMAIN raw |-> DecodeByte(raw[k])]
      value1 == StrReplace(text, <<"\r">>, <<>>)
  IN  StrReplace(StrReplace(value1, <<"\\", "r">>, <<>>), <<"\\", "n">>, <<" ">>)

\* Call(F, x) is a call of Python: the argument is evaluated, once, before
\* the call
bytes_to_string(_bytes) ==
  LET Call(F(_), x) == CHOOSE r \in {F(v) : v \in {x}} : TRUE
      strip_nul(b) == BytesRemove(b, 0)
      drop_cr(s)   == StrReplace(s, <<"\r">>, <<>>)
      drop_esc_r(s) == StrReplace(s, <<"\\", "r">>, <<>>)
      esc_n_to_space(s) == StrReplace(s, <<"\\", "n">>, <<" ">>)
      value1 == Call(drop_cr, Call(Slice2m1, Call(StrOfBytes, Call(strip_nul, _bytes))))
      value2 == Call(esc_n_to_space, Call(drop_esc_r, value1))
  IN  value2

(***************************************************************************)
(* The operating system's side of a run: what a process may do.            *)
(***************************************************************************)
\* exit status, stdout bytes and stderr bytes of a finished process:
\* b"ok\r\n" and b"bo\x00om\n" stand for any output
Outcomes ==
  { [rc |-> 0, out |-> <<111, 107, 13, 10>>, err |-> <<>>],
    [rc |-> 0, out |-> <<>>, err |-> <<98, 111, 0, 111, 109, 10>>],
    [rc |-> 1, out |-> <<111, 107, 13, 10>>, err |-> <<98, 111, 0, 111, 109, 10>>] }

Units == DOMAIN units
Coros == DOMAIN coros
Procs == DOMAIN procs

(***************************************************************************)
(* class Command                                                           *)
(***************************************************************************)
\* Command.__init__
__init__(cmd, stderr_target, stdout_target) ==
  [ cmd           |-> cmd,
    stdout_target |-> stdout_target,
    stderr_target |-> stderr_target,
    process       |-> None,
    stdout        |-> None,
    stderr        |-> None,
    start_time    |-> None,
    end_time      |-> None ]

\* Command.return_code: None has no attribute returncode
return_code(self) ==
  IF self.process # None THEN procs[self.process[1]].returncode ELSE None

\* Command.pid answering only once the process has an exit status
pid_after_exit(self) ==
  IF self.process # None /\ procs[self.process[1]].returncode # None
    THEN Some(procs[self.process[1]].pid)
  ELSE None

\* Command.pid
pid(self) ==
  IF self.process # None THEN Some(procs[self.process[1]].pid) ELSE None

\* Command.time_delta measuring up to the current time while end_time is unset
time_delta_so_far(self) ==
  IF self.start_time = None THEN Raise("TypeError")
  ELSE LET end     == IF self.end_time = None THEN now ELSE self.end_time[1]
           seconds == end - self.start_time[1]
           minutes == seconds \div 60
       IN  Ok(<<minutes, seconds>>)

\* Command.time_delta: None - datetime, datetime - None and None - None raise
time_delta(self) ==
  IF self.end_time = None \/ self.start_time = None THEN Raise("TypeError")
  ELSE LET seconds == self.end_time[1] - self.start_time[1]
           minutes == seconds \div 60
       IN  Ok(<<minutes, seconds>>)

\* Command.__str__: the format spec :3 applied to None raises
__str__(self) ==
  IF pid(self) = None THEN Ok([kind |-> "placeholder", cmd |-> self.cmd])
  ELSE IF return_code(self) = None THEN Raise("TypeError")
  ELSE IF ~time_delta(self).ok THEN Raise("TypeError")
  ELSE Ok([ kind        |-> "full",
            cmd         |-> self.cmd,
            pid         |-> pid(self)[1],
            return_code |-> return_code(self)[1],
            start       |-> self.start_time,
            end         |-> self.end_time,
            minutes     |-> time_delta(self).val[1],
            seconds     |-> time_delta(self).val[2] ])

\* f"{x}" for a str or None
Format(x) == IF x = None THEN <<"N", "o", "n", "e">> ELSE x[1]

\* write_log with stdout and stderr swapped in the error record
write_log_swapped(command) ==
  IF ~__str__(command).ok THEN Raise(__str__(command).val)
  ELSE IF return_code(command) = Some(0)
    THEN Ok([level |-> "INFO", line |-> __str__(command).val, rest |-> <<>>])
  ELSE Ok([ level |-> "ERROR",
            line  |-> __str__(command).val,
            rest  |-> Format(command.stdout) \o Format(command.stderr) ])

\* parse_streams_on_complete raising CommandError for a failed process
parse_streams_checked(p) ==
  IF procs[p].returncode # Some(0) THEN Raise("CommandError")
  ELSE Ok(<<bytes_to_string(procs[p].out), bytes_to_string(procs[p].err)>>)

\* write_log: the record handed to LOG.info or LOG.error, or the exception
write_log(command) ==
  IF ~__str__(command).ok THEN Raise(__str__(command).val)
  ELSE IF return_code(command) = Some(0)
    THEN Ok([level |-> "INFO", line |-> __str__(command).val, rest |-> <<>>])
  ELSE Ok([ level |-> "ERROR",
            line  |-> __str__(command).val,
            rest  |-> Format(command.stderr) \o Format(command.stdout) ])

\* get_date_time_string
get_date_time_string == now

\* Process.communicate: (stdout, stderr), None for a stream that is no pipe
communicate(p) ==
  << IF procs[p].stdout_pipe THEN Some(procs[p].out) ELSE None,
     IF procs[p].stderr_pipe THEN Some(procs[p].err) ELSE None >>

\* parse_streams_on_complete: None has no attribute replace
parse_streams_on_complete(p) ==
  LET streams == communicate(p)
  IN  IF streams[1] = None \/ streams[2] = None THEN Raise("AttributeError")
      ELSE Ok(<<bytes_to_string(streams[1][1]), bytes_to_string(streams[2][1])>>)

(***************************************************************************)
(* The coroutine func() that Command.__call__ returns, run as a task of    *)
(* the event loop.  A task is at one of                                    *)
(*   "new"          created, first step not yet run                        *)
(*   "spawn"        suspended in await create_subprocess_shell             *)
(*   "communicate"  suspended in await process.communicate()               *)
(*   "done"         returned None                                          *)
(*   "raised"       ended by the exception exc                             *)
(*   "cancelled"    cancelled at its suspension point                      *)
(***************************************************************************)
\* Command.__call__: a fresh coroutine on the object
__call__(u) == [unit |-> u, pc |-> "new", process |-> None, exc |-> "none"]

Pending(c) == coros[c].pc \in {"new", "spawn", "communicate"}

\* the loop runs tasks while run() is suspended in gather, or while the
\* caller of a single Command keeps it running
LoopRunning == runner \in {"gathering", "external"}

\* one coroutine awaited after the other: a task starts when those before
\* it are done
SequentialQueue(c) == \A k \in Coros : k < c => coros[k].pc = "done"

\* the ready queue is first-in first-out: tasks take their first step in
\* the order they were created
FirstInQueue(c) == \A k \in Coros : k < c => coros[k].pc # "new"

\* under gather every task is queued before run() suspends, so a task that
\* is ready for its first step takes it before the loop handles a later event
FirstStepsTaken ==
  runner = "gathering" => \A c \in Coros : ~(coros[c].pc = "new" /\ FirstInQueue(c))

\* the process create_subprocess_shell starts for unit u
NewProcess(u) ==
  [ pid         |-> Len(procs) + 1,
    returncode  |-> None,
    stdout_pipe |-> units[u].stdout_target = None,
    stderr_pipe |-> units[u].stderr_target = None,
    out         |-> <<>>,
    err         |-> <<>> ]

\* func, first step, without the assignment of start_time
FuncStartNoStamp(c) ==
  /\ LoopRunning
  /\ coros[c].pc = "new"
  /\ FirstInQueue(c)
  /\ \/ /\ procs' = Append(procs, NewProcess(coros[c].unit))
        /\ coros' = [coros EXCEPT ![c].pc = "spawn",
                                  ![c].process = Some(Len(procs) + 1)]
     \/ /\ procs' = procs
        /\ coros' = [coros EXCEPT ![c].pc = "raised", ![c].exc = "OSError"]
  /\ UNCHANGED <<units, log, now, runner>>

\* func, first step: start_time is set, then the shell is spawned; the
\* spawn either fails at once or suspends the task until it is set up
FuncStart(c) ==
  /\ LoopRunning
  /\ coros[c].pc = "new"
  /\ FirstInQueue(c)
  /\ units' = [units EXCEPT ![coros[c].unit].start_time = Some(get_date_time_string)]
  /\ \/ /\ procs' = Append(procs, NewProcess(coros[c].unit))
        /\ coros' = [coros EXCEPT ![c].pc = "spawn",
                                  ![c].process = Some(Len(procs) + 1)]
     \/ /\ procs' = procs
        /\ coros' = [coros EXCEPT ![c].pc = "raised", ![c].exc = "OSError"]
  /\ UNCHANGED <<log, now, runner>>

\* func, second step, with _process an attribute of the class: the
\* assignment is seen by every Command
FuncSpawnedShared(c) ==
  /\ LoopRunning
  /\ FirstStepsTaken
  /\ coros[c].pc = "spawn"
  /\ units' = [v \in Units |-> [units[v] EXCEPT !.process = coros[c].process]]
  /\ coros' = [coros EXCEPT ![c].pc = "communicate"]
  /\ UNCHANGED <<procs, log, now, runner>>

\* func, second step: self._process = process, then communicate() suspends
FuncSpawned(c) ==
  /\ LoopRunning
  /\ FirstStepsTaken
  /\ coros[c].pc = "spawn"
  /\ units' = [units EXCEPT ![coros[c].unit].process = coros[c].process]
  /\ coros' = [coros EXCEPT ![c].pc = "communicate"]
  /\ UNCHANGED <<procs, log, now, runner>>

\* the unit after lines 119-120: decoded streams and end_time stored
StoreResult(self, streams) ==
  [self EXCEPT !.stdout = Some(streams[1]),
               !.stderr = Some(streams[2]),
               !.end_time = Some(get_date_time_string)]

\* func, last step: communicate() returned; streams decoded, end_time set,
\* outcome logged
FuncCollect(c) ==
  LET u == coros[c].unit
      p == coros[c].process[1]
  IN  /\ LoopRunning
      /\ coros[c].pc = "communicate"
      /\ procs[p].returncode # None
      /\ \E parsed \in {parse_streams_on_complete(p)} :
           IF ~parsed.ok
             THEN /\ coros' = [coros EXCEPT ![c].pc = "raised", ![c].exc = parsed.val]
                  /\ UNCHANGED <<units, log>>
           ELSE \E after \in {StoreResult(units[u], parsed.val)} :
                  \E line \in {write_log(after)} :
                    /\ units' = [units EXCEPT ![u] = after]
                    /\ IF ~line.ok
                         THEN /\ coros' = [coros EXCEPT ![c].pc = "raised",
                                                        ![c].exc = line.val]
                              /\ UNCHANGED log
                       ELSE /\ log' = Append(log, line.val)
                            /\ coros' = [coros EXCEPT ![c].pc = "done"]
      /\ UNCHANGED <<procs, now, runner>>

\* a child process exits: the loop records its exit status and its output
ProcExit(p) ==
  /\ LoopRunning
  /\ FirstStepsTaken
  /\ procs[p].returncode = None
  /\ \E o \in Outcomes :
       procs' = [procs EXCEPT ![p].returncode = Some(o.rc),
                              ![p].out = o.out,
                              ![p].err = o.err]
  /\ UNCHANGED <<units, coros, log, now, runner>>

\* the wall clock advances
Tick ==
  /\ now + TickSeconds <= MaxTicks * TickSeconds
  /\ now' = now + TickSeconds
  /\ UNCHANGED <<units, coros, procs, log, runner>>

(***************************************************************************)
(* main.py: run() and main()                                               *)
(***************************************************************************)
CmdName(i) == <<"cmd", i>>

\* run(), lines 15-21: the list of Commands, none with a stream target
tasks == [i \in 1..NUnits |-> __init__(CmdName(i), None, None)]

\* gather replaced by a wait for the first coroutine to finish
AnyDone == \E c \in Coros : coros[c].pc = "done"

\* gather treating a failed process as a result still missing
AllSucceeded ==
  \A c \in Coros :
    coros[c].pc = "done" /\ procs[coros[c].process[1]].returncode = Some(0)

\* gather: every coroutine done
AllDone == \A c \in Coros : coros[c].pc = "done"

\* gather: some coroutine raised, and every task has had its first step
\* (those were queued before the wakeup of run())
FirstException == /\ \E c \in Coros : coros[c].pc = "raised"
                  /\ FirstStepsTaken

\* run(), line 23: one coroutine per Command, handed to gather
RunGather ==
  /\ runner = "start"
  /\ coros' = [i \in 1..NUnits |-> __call__(i)]
  /\ runner' = "gathering"
  /\ UNCHANGED <<units, procs, log, now>>

\* run() returns when gather has every result
RunReturn ==
  /\ runner = "gathering"
  /\ AllDone
  /\ runner' = "returned"
  /\ UNCHANGED <<units, coros, procs, log, now>>

\* gather hands the first exception to run(), which raises it
RunRaise ==
  /\ runner = "gathering"
  /\ FirstException
  /\ runner' = "raised"
  /\ UNCHANGED <<units, coros, procs, log, now>>

\* main(), line 27: asyncio.run cancels the tasks left and closes the loop
MainCancel ==
  /\ runner = "raised"
  /\ coros' = [c \in Coros |->
                 IF Pending(c) THEN [coros[c] EXCEPT !.pc = "cancelled"] ELSE coros[c]]
  /\ runner' = "closed"
  /\ UNCHANGED <<units, procs, log, now>>

Init ==
  /\ units = tasks
  /\ coros = <<>>
  /\ procs = <<>>
  /\ log = <<>>
  /\ now = 0
  /\ runner = "start"

Next ==
  \/ RunGather
  \/ \E c \in Coros : FuncStart(c)
  \/ \E c \in Coros : FuncSpawned(c)
  \/ \E p \in Procs : ProcExit(p)
  \/ \E c \in Coros : FuncCollect(c)
  \/ Tick
  \/ RunReturn
  \/ RunRaise
  \/ MainCancel

Spec == Init /\ [][Next]_vars

(***************************************************************************)
(* One Command object driven by an arbitrary caller that keeps the loop    *)
(* running: the object may have stream targets and may be called again.    *)
(***************************************************************************)
Targets == {None, Some("sink")}

\* a caller invokes the object and schedules the coroutine as a task
Invoke(u) ==
  /\ runner = "external"
  /\ Len(coros) < MaxCalls
  /\ coros' = Append(coros, __call__(u))
  /\ UNCHANGED <<units, procs, log, now, runner>>

InitObj ==
  /\ \E e \in Targets, o \in Targets : units = <<__init__(CmdName(1), e, o)>>
  /\ coros = <<>>
  /\ procs = <<>>
  /\ log = <<>>
  /\ now = 0
  /\ runner = "external"

NextObj ==
  \/ \E u \in Units : Invoke(u)
  \/ \E c \in Coros : FuncStart(c)
  \/ \E c \in Coros : FuncSpawned(c)
  \/ \E p \in Procs : ProcExit(p)
  \/ \E c \in Coros : FuncCollect(c)
  \/ Tick

SpecObj == InitObj /\ [][NextObj]_vars

(***************************************************************************)
(* Lifecycle of a unit, read off its attributes.                           *)
(***************************************************************************)
IsCreated(u) == pid(units[u]) = None

IsCompleted(u) ==
  /\ return_code(units[u]) # None
  /\ units[u].end_time # None
  /\ units[u].stdout # None
  /\ units[u].stderr # None

IsRunning(u) == ~IsCreated(u) /\ ~IsCompleted(u)

\* the log records written for unit u
LogsOf(u) == {k \in DOMAIN log : log[k].line.cmd = units[u].cmd}

\* the tasks whose spawn succeeded
Spawned == {c \in Coros : coros[c].process # None}

SpawnFailed == {c \in Coros : coros[c].pc = "raised" /\ coros[c].exc = "OSError"}

RunEnded == runner \in {"returned", "raised", "closed"}

(***************************************************************************)
(* C1: if one unit of a batch fails to spawn, the runner still waits for   *)
(* every other unit: when run() returns or raises, no sibling is still     *)
(* pending and none is ever cancelled, and every sibling whose spawn       *)
(* succeeded is Completed and has its log record.                          *)
(***************************************************************************)
C1_SpawnFailureWaitsForSiblings ==
  (RunEnded /\ SpawnFailed # {}) =>
    \A c \in Coros \ SpawnFailed :
      /\ coros[c].pc = "done"
      /\ IsCompleted(coros[c].unit)
      /\ LogsOf(coros[c].unit) # {}

(***************************************************************************)
(* C2: join correctness.  run() returns only when every unit of the batch  *)
(* is Completed: exit status, end timestamp and decoded output set, and    *)
(* its log record written.                                                 *)
(***************************************************************************)
C2_JoinCorrectness ==
  runner = "returned" =>
    \A u \in Units :
      /\ IsCompleted(u)
      /\ Cardinality(LogsOf(u)) = 1
      /\ \E c \in Coros : coros[c].unit = u /\ coros[c].pc = "done"
                          /\ procs[coros[c].process[1]].returncode # None

\* run() has returned after the units completed in the reverse of their order
C2_Witness ==
  /\ runner = "returned"
  /\ Len(log) = NUnits
  /\ log[1].line.cmd = CmdName(NUnits)
  /\ log[NUnits].line.cmd = CmdName(1)

(***************************************************************************)
(* C3: each execution of a unit whose spawn succeeds writes exactly one    *)
(* log record, and only once the process has exited and the end timestamp  *)
(* is set: never more than one record per unit, none for a unit that is    *)
(* Created or Running, and when the batch is over one record for every     *)
(* unit that was spawned.                                                  *)
(***************************************************************************)
C3_ExactlyOneLogPerSpawnedUnit ==
  /\ \A u \in Units : Cardinality(LogsOf(u)) <= 1
  /\ \A u \in Units : LogsOf(u) # {} => IsCompleted(u)
  /\ runner \in {"returned", "closed"} =>
       \A c \in Spawned : Cardinality(LogsOf(coros[c].unit)) = 1

(***************************************************************************)
(* C4: every log record is for a Completed unit and carries its display    *)
(* line; it is on the informational channel exactly when the exit status   *)
(* is 0, and then holds the display line alone; otherwise it is on the     *)
(* error channel and holds the display line, then the stderr text, then    *)
(* the stdout text.  Every unit whose execution finished has its record.   *)
(***************************************************************************)
C4_Classification ==
  /\ \A k \in DOMAIN log : \E u \in Units :
       /\ log[k].line.cmd = units[u].cmd
       /\ IsCompleted(u)
       /\ log[k].line.kind = "full"
       /\ log[k].line.pid = pid(units[u])[1]
       /\ log[k].line.return_code = return_code(units[u])[1]
       /\ log[k].line.start = units[u].start_time
       /\ log[k].line.end = units[u].end_time
       /\ log[k].level \in {"INFO", "ERROR"}
       /\ log[k].level = "INFO" <=> return_code(units[u]) = Some(0)
       /\ log[k].level = "INFO" => log[k].rest = <<>>
       /\ log[k].level = "ERROR" => log[k].rest = units[u].stderr[1] \o units[u].stdout[1]
  /\ \A c \in Coros : coros[c].pc = "done" => LogsOf(coros[c].unit) # {}

\* an error record whose stderr and stdout texts are both non-empty, and an
\* informational record for a unit that wrote to stderr
C4_Witness ==
  /\ \E k \in DOMAIN log :
       /\ log[k].level = "ERROR"
       /\ log[k].rest = <<"b", "o", "o", "m", " ", "o", "k", " ">>
  /\ \E k \in DOMAIN log, u \in Units :
       /\ log[k].level = "INFO"
       /\ log[k].line.cmd = units[u].cmd
       /\ units[u].stderr # Some(<<>>)

(***************************************************************************)
(* C5: a non-zero exit is a normal outcome.  The execution of a unit whose *)
(* process exited with a status other than 0 ends without an exception,    *)
(* the unit is Completed with that status and has an error record; the     *)
(* only exception a task ever ends with is a failed spawn, so run() raises *)
(* and tasks are cancelled only after a failed spawn.                      *)
(***************************************************************************)
C5_NonZeroExitIsNormal ==
  /\ \A c \in Coros : coros[c].pc = "raised" => c \in SpawnFailed /\ coros[c].process = None
  /\ \A c \in Coros :
       (coros[c].pc = "done" /\ procs[coros[c].process[1]].returncode # Some(0)) =>
         /\ IsCompleted(coros[c].unit)
         /\ return_code(units[coros[c].unit]) = procs[coros[c].process[1]].returncode
         /\ \E k \in LogsOf(coros[c].unit) : log[k].level = "ERROR"
  /\ (runner \in {"raised", "closed"} \/ \E c \in Coros : coros[c].pc = "cancelled")
       => SpawnFailed # {}

\* run() has returned from a batch in which one process exited with status 1
\* and another with status 0
C5_Witness ==
  /\ runner = "returned"
  /\ \E c \in Coros : procs[coros[c].process[1]].returncode = Some(1)
  /\ \E c \in Coros : procs[coros[c].process[1]].returncode = Some(0)

(***************************************************************************)
(* C6: the lifecycle of a unit is monotone and single-shot.  Over any      *)
(* operations on a Command object, calling it again included, a unit that  *)
(* is Completed stays Completed, a unit that has left Created never        *)
(* returns to it, and at most one process is ever spawned for it.          *)
(***************************************************************************)
SpawnCount(u) == Cardinality({c \in Spawned : coros[c].unit = u})

C6_SingleShotLifecycle ==
  [][\A u \in Units :
       /\ IsCompleted(u) => IsCompleted(u)'
       /\ ~IsCreated(u) => ~IsCreated(u)'
       /\ SpawnCount(u)' <= 1]_vars

(***************************************************************************)
(* C7: a unit constructed with a stdout or stderr target executes like a   *)
(* capturing unit: once its process has exited and its execution is over,  *)
(* the execution returned without an exception, the unit has its end       *)
(* timestamp and exit status, and its outcome is logged.                   *)
(***************************************************************************)
HasTarget(u) == units[u].stdout_target # None \/ units[u].stderr_target # None

C7_TargetsExecuteLikeCapture ==
  \A c \in Spawned :
    (/\ HasTarget(coros[c].unit)
     /\ procs[coros[c].process[1]].returncode # None
     /\ ~Pending(c)) =>
      /\ coros[c].pc = "done"
      /\ units[coros[c].unit].end_time # None
      /\ return_code(units[coros[c].unit]) # None
      /\ LogsOf(coros[c].unit) # {}

(***************************************************************************)
(* C8: querying the elapsed time or the exit status of a unit that is not  *)
(* yet Completed always produces an error and never returns a value.       *)
(***************************************************************************)
\* reading the property return_code: the getter returns on both its paths
ExitStatusQuery(u) == Ok(return_code(units[u]))

ElapsedQuery(u) == time_delta(units[u])

C8_InvalidStateAccessFails ==
  \A u \in Units : ~IsCompleted(u) => ~ElapsedQuery(u).ok /\ ~ExitStatusQuery(u).ok

\* an execution of the unit has stored the streams and the end timestamp
PastEndTime(c) ==
  coros[c].pc = "done" \/ (coros[c].pc = "raised" /\ coros[c].exc = "TypeError")

(***************************************************************************)
(* C8, amended: querying the elapsed time of a unit none of whose          *)
(* executions has yet stored its end timestamp (Created, or Running for    *)
(* the first time) always raises and never returns a value; querying the   *)
(* exit status never raises, and returns None while the unit is Created    *)
(* and while its process has not exited.                                   *)
(***************************************************************************)
C8_ElapsedRaisesExitStatusIsNone ==
  \A u \in Units :
    /\ (\A c \in Coros : coros[c].unit = u => ~PastEndTime(c)) => ~ElapsedQuery(u).ok
    /\ ExitStatusQuery(u).ok
    /\ IsCreated(u) => ExitStatusQuery(u).val = None
    /\ (~IsCreated(u) /\ procs[units[u].process[1]].returncode = None)
         => ExitStatusQuery(u).val = None

\* a Running unit whose process has not exited: no exit status, no elapsed time
C8_Witness ==
  \E u \in Units :
    /\ IsRunning(u)
    /\ units[u].start_time # None
    /\ ExitStatusQuery(u).ok /\ ExitStatusQuery(u).val = None
    /\ ~ElapsedQuery(u).ok

(***************************************************************************)
(* C9: in every reachable state of a unit the process identifier and the   *)
(* exit status are either both absent or both present.                     *)
(***************************************************************************)
C9_BothAbsentOrBothPresent ==
  \A u \in Units : pid(units[u]) = None <=> return_code(units[u]) = None

(***************************************************************************)
(* C9, amended: the identifier and the exit status are both absent until   *)
(* the spawn has completed; once it has, the identifier is present, and    *)
(* the exit status is present exactly when the process has exited, so it   *)
(* is absent while the unit is Running and present once it is Completed.   *)
(* The exit status is never present without the identifier.                *)
(***************************************************************************)
C9_IdentifierThenExitStatus ==
  /\ \A u \in Units :
       /\ return_code(units[u]) # None => pid(units[u]) # None
       /\ IsCompleted(u) => pid(units[u]) # None
       /\ runner = "start" => pid(units[u]) = None /\ return_code(units[u]) = None
  /\ \A c \in Coros :
       LET self == units[coros[c].unit]
       IN  /\ (coros[c].pc \in {"new", "spawn"} \/ c \in SpawnFailed) =>
                pid(self) = None /\ return_code(self) = None
           /\ coros[c].pc \in {"communicate", "done"} =>
                /\ pid(self) = Some(procs[coros[c].process[1]].pid)
                /\ return_code(self) = procs[coros[c].process[1]].returncode
           /\ coros[c].pc = "done" => return_code(self) # None

\* a Running unit: identifier present, exit status absent
C9_Witness ==
  \E c \in Coros :
    /\ coros[c].pc = "communicate"
    /\ pid(units[coros[c].unit]) # None
    /\ return_code(units[coros[c].unit]) = None

(***************************************************************************)
(* C10: whenever a unit has both an exit status and an end timestamp, its  *)
(* end timestamp is not before its start timestamp, so that its elapsed    *)
(* time is not negative, after any sequence of operations on the unit (the *)
(* clock never runs backwards).                                            *)
(***************************************************************************)
C10_EndNotBeforeStart ==
  \A u \in Units :
    (return_code(units[u]) # None /\ units[u].end_time # None) =>
      /\ units[u].start_time # None
      /\ units[u].end_time[1] >= units[u].start_time[1]
      /\ time_delta(units[u]).ok
      /\ time_delta(units[u]).val[2] >= 0

(***************************************************************************)
(* One capturing Command called once, whose process writes arbitrary bytes *)
(* of a bounded alphabet to its streams before it exits: the inputs of     *)
(* bytes_to_string.                                                        *)
(***************************************************************************)
\* NUL, LF, CR, double quote, single quote, backslash, a, n, r, e-acute
ByteAlphabet == {0, 10, 13, 34, 39, 92, 97, 110, 114, 233}

\* a running process writes one byte to its stdout or its stderr
ProcWrite(p) ==
  /\ LoopRunning
  /\ procs[p].returncode = None
  /\ Len(procs[p].out) + Len(procs[p].err) < MaxBytes
  /\ \E b \in ByteAlphabet :
       \/ procs' = [procs EXCEPT ![p].out = Append(@, b)]
       \/ procs' = [procs EXCEPT ![p].err = Append(@, b)]
  /\ UNCHANGED <<units, coros, log, now, runner>>

\* the process exits, leaving what it wrote in the pipes
ProcClose(p) ==
  /\ LoopRunning
  /\ procs[p].returncode = None
  /\ \E rc \in {0, 1} : procs' = [procs EXCEPT ![p].returncode = Some(rc)]
  /\ UNCHANGED <<units, coros, log, now, runner>>

InitDecode ==
  /\ units = <<__init__(CmdName(1), None, None)>>
  /\ coros = <<__call__(1)>>
  /\ procs = <<>>
  /\ log = <<>>
  /\ now = 0
  /\ runner = "external"

NextDecode ==
  \/ \E c \in Coros : FuncStart(c)
  \/ \E c \in Coros : FuncSpawned(c)
  \/ \E p \in Procs : ProcWrite(p)
  \/ \E p \in Procs : ProcClose(p)
  \/ \E c \in Coros : FuncCollect(c)

SpecDecode == InitDecode /\ [][NextDecode]_vars

\* the characters that must not reach a log line
RawControl == {"NUL", "\r", "\n"}

Clean(text) == \A k \in DOMAIN text : text[k] \notin RawControl

(***************************************************************************)
(* C11: bytes_to_string is total on byte strings over an alphabet with     *)
(* NUL, CR, LF, backslash, quotes and a non-ASCII byte: decoding the       *)
(* streams of a process never ends the execution with an exception, and    *)
(* the text it returns holds no NUL, no carriage return and no line feed.  *)
(***************************************************************************)
C11_DecoderTotalAndClean ==
  /\ \A p \in Procs :
       /\ Clean(bytes_to_string(procs[p].out))
       /\ Clean(bytes_to_string(procs[p].err))
  /\ \A c \in Coros : coros[c].pc = "raised" => coros[c].exc = "OSError"
  /\ \A c \in Coros :
       (coros[c].pc = "communicate" /\ procs[coros[c].process[1]].returncode # None)
         => parse_streams_on_complete(coros[c].process[1]).ok
  /\ \A u \in Units :
       /\ units[u].stdout # None => Clean(units[u].stdout[1])
       /\ units[u].stderr # None => Clean(units[u].stderr[1])

\* the unit has decoded b"\x00\r\n" from stdout into a single space
C11_Witness ==
  \E c \in Coros :
    /\ coros[c].pc = "done"
    /\ procs[coros[c].process[1]].out = <<0, 13, 10>>
    /\ units[coros[c].unit].stdout = Some(<<" ">>)

(***************************************************************************)
(* C18: for every input made only of printable ASCII bytes (backslash and  *)
(* quotes included, no NUL, CR or LF), bytes_to_string returns exactly the *)
(* same characters in the same order; a literal backslash followed by n or *)
(* r is preserved.                                                         *)
(***************************************************************************)
PrintableOnly(bs) == \A k \in DOMAIN bs : bs[k] >= 32 /\ bs[k] <= 126

AsText(bs) == [k \in DOMAIN bs |-> Chr(bs[k])]

C18_PrintableAsciiPreserved ==
  \A c \in Coros :
    coros[c].pc = "done" =>
      LET p    == coros[c].process[1]
          self == units[coros[c].unit]
      IN  /\ PrintableOnly(procs[p].out) => self.stdout = Some(AsText(procs[p].out))
          /\ PrintableOnly(procs[p].err) => self.stderr = Some(AsText(procs[p].err))

(***************************************************************************)
(* C12: a unit whose spawn fails stays in Created: after the spawn error   *)
(* its identifier, exit status, start timestamp, end timestamp and decoded *)
(* output are all absent and it has no log record; and whenever a unit's   *)
(* start timestamp is set, its process identifier is assigned.             *)
(***************************************************************************)
C12_SpawnFailureLeavesNothing ==
  /\ \A c \in SpawnFailed :
       LET self == units[coros[c].unit]
       IN  /\ pid(self) = None
           /\ return_code(self) = None
           /\ self.start_time = None
           /\ self.end_time = None
           /\ self.stdout = None /\ self.stderr = None
           /\ LogsOf(coros[c].unit) = {}
  /\ \A u \in Units : units[u].start_time # None => pid(units[u]) # None

(***************************************************************************)
(* C12, amended: a unit whose spawn fails never reaches Running: after the *)
(* spawn error its identifier, exit status, end timestamp and decoded      *)
(* output are all absent and it has no log record, but its start timestamp *)
(* is set, because it is recorded before the spawn.  Whenever a unit's     *)
(* process identifier is assigned, its start timestamp is set.             *)
(***************************************************************************)
C12_SpawnFailureKeepsOnlyStart ==
  /\ \A c \in SpawnFailed :
       LET self == units[coros[c].unit]
       IN  /\ IsCreated(coros[c].unit)
           /\ return_code(self) = None
           /\ self.start_time # None
           /\ self.end_time = None
           /\ self.stdout = None /\ self.stderr = None
           /\ LogsOf(coros[c].unit) = {}
  /\ \A u \in Units : pid(units[u]) # None => units[u].start_time # None

\* the batch is over; the spawn of the last unit failed after the clock had
\* advanced, and the first unit was spawned
C12_Witness ==
  /\ runner = "closed"
  /\ NUnits \in SpawnFailed
  /\ units[NUnits].start_time = Some(TickSeconds)
  /\ 1 \in Spawned

LoopStep ==
  \/ RunGather
  \/ \E c \in Coros : FuncStart(c)
  \/ \E c \in Coros : FuncSpawned(c)
  \/ \E p \in Procs : ProcExit(p)
  \/ \E c \in Coros : FuncCollect(c)
  \/ RunReturn
  \/ RunRaise
  \/ MainCancel

SpecLive == Init /\ [][Next]_vars /\ WF_vars(LoopStep)

(***************************************************************************)
(* C14: liveness of a batch.  Under fair scheduling, unless a spawn fails, *)
(* every unit eventually reaches Completed and run() eventually returns;   *)
(* and a unit is never cancelled, nor does run() end, while no spawn has   *)
(* failed and a unit has not completed.                                    *)
(***************************************************************************)
C14_BatchTerminates ==
  /\ <>(SpawnFailed # {} \/ (runner = "returned" /\ \A u \in Units : IsCompleted(u)))
  /\ [](SpawnFailed = {} =>
          /\ \A c \in Coros : coros[c].pc \notin {"cancelled", "raised"}
          /\ RunEnded => \A c \in Coros : coros[c].pc = "done")

\* run() has returned with every unit Completed, one of them with a failed
\* process, after the clock ran to its bound
C14_Witness ==
  /\ runner = "returned"
  /\ \A u \in Units : IsCompleted(u)
  /\ \E u \in Units : return_code(units[u]) = Some(1)
  /\ now = MaxTicks * TickSeconds

(***************************************************************************)
(* What can be observed of a unit: command text, identifier, exit status,  *)
(* timestamps and decoded output.                                          *)
(***************************************************************************)
View(u) ==
  << units[u].cmd, pid(units[u]), return_code(units[u]),
     units[u].start_time, units[u].end_time, units[u].stdout, units[u].stderr >>

\* the units other than the one coroutine c executes
Others(c) == Units \ {coros[c].unit}

(***************************************************************************)
(* C15: no shared mutable state.  A step of one unit's execution (start    *)
(* timestamp and spawn, process stored, streams collected and end          *)
(* timestamp set) and the exit of its process leave what can be observed   *)
(* of every other unit of the batch unchanged.                             *)
(***************************************************************************)
C15_StepsChangeOwnUnitOnly ==
  [][ /\ \A c \in Coros :
           (FuncStart(c) \/ FuncSpawned(c) \/ FuncCollect(c)) =>
             \A u \in Others(c) : View(u)' = View(u)
      /\ \A c \in Spawned :
           ProcExit(coros[c].process[1]) =>
             \A u \in Others(c) : View(u)' = View(u) ]_vars

\* both units have run to completion, each with its own process, exit
\* status, output and start timestamp
C15_Witness ==
  /\ \A u \in Units : IsCompleted(u)
  /\ pid(units[1]) # pid(units[NUnits])
  /\ return_code(units[1]) # return_code(units[NUnits])
  /\ units[1].stdout # units[NUnits].stdout
  /\ units[1].start_time # units[NUnits].start_time

(***************************************************************************)
(* C16: for a Completed unit whose end - start is T seconds, time_delta    *)
(* returns (T div 60, T mod 60): the seconds are below 60 and              *)
(* minutes * 60 + seconds = T.                                             *)
(***************************************************************************)
C16_ElapsedDecomposesSeconds ==
  \A u \in Units :
    IsCompleted(u) =>
      LET T == units[u].end_time[1] - units[u].start_time[1]
          e == time_delta(units[u])
      IN  /\ e.ok
          /\ e.val = <<T \div 60, T % 60>>
          /\ 0 <= e.val[2] /\ e.val[2] < 60
          /\ e.val[1] * 60 + e.val[2] = T

(***************************************************************************)
(* C17: display formatting is defined in every lifecycle state: __str__    *)
(* never raises, gives the placeholder line exactly when the identifier    *)
(* is absent and the full line otherwise, a Running unit included.         *)
(***************************************************************************)
C17_DisplayNeverRaises ==
  \A u \in Units :
    LET shown == __str__(units[u])
    IN  /\ shown.ok
        /\ shown.val.kind = "placeholder" <=> pid(units[u]) = None

====
